---- MODULE Spec2Model ----
(***************************************************************************)
(* A state-machine model of drupal-preprocess-behavior.js: the overridden  *)
(* Drupal.attachBehaviors, Drupal.attachBehavior, Drupal.detachBehavior,   *)
(* the private Drupal._attachBehavior and Drupal.preprocessBehavior with   *)
(* its local helper getChainedValue, and the element accessor getElement   *)
(* that the README's attach example calls.                                 *)
(***************************************************************************)
EXTENDS Integers, Sequences, FiniteSets, TLC

VARIABLES
  behaviors,       \* Drupal.behaviors: name -> behavior object (mutable)
  Drupal_settings, \* Drupal.settings, the ambient settings tree
  dom,             \* the nodes currently in the document
  pc,              \* position of the walker: "idle", "walk" or "attach"
  op,              \* the call in progress: its name and defaulted arguments
  idx,             \* position of $.each in the enumeration of Drupal.behaviors
  cycles,          \* number of calls made so far
  order,           \* the enumeration order of Drupal.behaviors
  attachLog,       \* attach invocations of the current call, in order
  detachLog,       \* detach invocations of the current call, in order
  warnLog,         \* console.warn lines of the current call, in order
  ppLog,           \* per behavior: outcome of preprocessBehavior in this call
  thrown,          \* per behavior: the error its attach threw in this call
  escaped,         \* the error that left the current call, or NoError
  before,          \* Drupal.behaviors as it was when the current call began
  declared,        \* Drupal.behaviors as the scripts of the page registered it
  scopeLog,        \* handles read at line 200 as a scope in this call, in order
  elementLog       \* the element request made by the attach routine now running

vars == <<behaviors, Drupal_settings, dom, pc, op, idx, cycles, order, attachLog,
          detachLog, warnLog, ppLog, thrown, escaped, before, declared, scopeLog,
          elementLog>>

----------------------------------------------------------------------------
(* Bounds of the exploration. *)

MaxCycles == 2

----------------------------------------------------------------------------
(* JavaScript values.  Every value is a record of the same shape: t is the *)
(* kind, s the text of a scalar, m the own properties of a plain object.   *)

NoProps == [k \in {} |-> 0]

Undefined == [t |-> "undefined", s |-> "", m |-> NoProps]
Null      == [t |-> "null", s |-> "", m |-> NoProps]
Bool(b)   == [t |-> "boolean", s |-> IF b THEN "true" ELSE "false", m |-> NoProps]
Num(s)    == [t |-> "number", s |-> s, m |-> NoProps]
Str(s)    == [t |-> "string", s |-> s, m |-> NoProps]
Obj(m)    == [t |-> "object", s |-> "", m |-> m]

\* typeof v
TypeOf(v) ==
  CASE v.t = "null"   -> "object"
    [] OTHER          -> v.t

\* ToBoolean(v), as used by ||, && and if
Truthy(v) ==
  CASE v.t = "undefined" -> FALSE
    [] v.t = "null"      -> FALSE
    [] v.t = "boolean"   -> v.s = "true"
    [] v.t = "number"    -> v.s # "0"
    [] v.t = "string"    -> v.s # ""
    [] OTHER             -> TRUE

\* v[k] for a value that is neither null nor undefined
GetProp(v, k) ==
  IF v.t = "object" /\ k \in DOMAIN v.m THEN v.m[k] ELSE Undefined

\* jQuery's $.extend(target, source) on two values: own properties of source
\* are copied onto target; a null or scalar source contributes nothing.
Extend(target, source) ==
  IF source.t # "object" THEN target
  ELSE Obj([k \in DOMAIN target.m \cup DOMAIN source.m |->
              IF k \in DOMAIN source.m THEN source.m[k] ELSE target.m[k]])

----------------------------------------------------------------------------
(* Errors.  A thrown value is either a primitive string or an Error        *)
(* object; its text is a sequence of tokens.                               *)

NoError == [kind |-> "none", msg |-> <<>>]
StringError(msg) == [kind |-> "string", msg |-> msg]
ErrorObject(kind, msg) == [kind |-> kind, msg |-> msg]

\* err.toString()
ErrToString(err) ==
  IF err.kind = "string" THEN err.msg ELSE <<err.kind, ": ">> \o err.msg

\* str.indexOf('[PREPROCESS]') === 0
IndexOfTagIsZero(str) == Len(str) > 0 /\ str[1] = "[PREPROCESS]"

\* var errPrefix = '[PREPROCESS] ';
errPrefix == <<"[PREPROCESS]", " ">>

----------------------------------------------------------------------------
(* The document.  Node 2 is a child of node 1; nodes 1 and 3 are children  *)
(* of the document root.  A selector matches the nodes of one class.       *)

Nodes == {1, 2, 3}
Document == 0
Parent == [n \in Nodes |-> IF n = 2 THEN 1 ELSE Document]
NodeClass == [n \in Nodes |-> IF n = 1 THEN ".wrap" ELSE ".item"]
TopLevel == {n \in Nodes : Parent[n] = Document}

\* the nodes the page may drop and put back between calls
Removable == {n \in TopLevel : NodeClass[n] = ".wrap"}

\* the node and everything below it
Subtree(n) == {n} \cup {c \in Nodes : Parent[c] = n}

\* the nodes strictly below some node of scope
Below(scope) == {c \in Nodes : Parent[c] \in scope}

\* $(selector): every matching node of the document
Query(selector, d) == {n \in d : NodeClass[n] = selector}

\* $(selector, handle): matching descendants of the nodes in the handle
QueryIn(selector, handle) == {n \in Below(handle) : NodeClass[n] = selector}

----------------------------------------------------------------------------
(* Settings paths.  A chain is the text of a dotted path as a sequence of  *)
(* tokens: property names and "." separators.                              *)

RECURSIVE SplitFrom(_, _, _)
SplitFrom(chain, i, cur) ==
  IF i > Len(chain) THEN <<cur>>
  ELSE IF chain[i] = "." THEN <<cur>> \o SplitFrom(chain, i + 1, <<>>)
  ELSE SplitFrom(chain, i + 1, Append(cur, chain[i]))

\* chain.split('.')
Split(chain) == SplitFrom(chain, 1, <<>>)

\* the property name a part of the chain spells ("" for an empty part)
PartName(part) == IF part = <<>> THEN "" ELSE part[1]

TypeErrorOf(what) == ErrorObject("TypeError", <<"Cannot read properties of ", what>>)

RECURSIVE WalkParts(_, _, _)
WalkParts(value, parts, p) ==
  IF p > Len(parts) THEN [err |-> NoError, value |-> value]
  ELSE IF value.t \in {"null", "undefined"}
    THEN [err |-> TypeErrorOf(value.t), value |-> Undefined]
  ELSE IF TypeOf(GetProp(value, PartName(parts[p]))) # "undefined"
    THEN WalkParts(GetProp(value, PartName(parts[p])), parts, p + 1)
  ELSE [err |-> NoError, value |-> Bool(FALSE)]

\* getChainedValue(root, chain): the value at the path, or false
getChainedValue(root, chain) == WalkParts(root, Split(chain), 1)

\* behavior.drupalSettings: absent, a primitive string, or a String object
NoPath == [t |-> "undefined", chain |-> <<>>]
PrimitivePath(chain) == [t |-> "string", chain |-> chain]
StringObjectPath(chain) == [t |-> "String", chain |-> chain]

\* typeof behavior.drupalSettings
TypeOfPath(d) == IF d.t = "String" THEN "object" ELSE d.t

----------------------------------------------------------------------------
(* Behavior objects.                                                       *)
(*   attach, detach : whether the property is a function                   *)
(*   preprocess     : the value of the preprocess property                 *)
(*   drupalSettings : the settings path                                    *)
(*   settings       : the settings property (undefined until set)          *)
(*   elements       : the array of element definitions                     *)
(*   handles        : the $-prefixed properties, by element name           *)

ElemNames == {"wrap", "item", "gone"}

NoHandle == [def |-> FALSE, nodes |-> {}]
Handle(nodes) == [def |-> TRUE, nodes |-> nodes]

Element(name, selector, required, context) ==
  [name |-> name, selector |-> selector, required |-> required, context |-> context]

\* a || b
Or(a, b) == IF Truthy(a) THEN a ELSE b

\* the value thrown for a required element that matched nothing
RequiredError(name) ==
  StringError(errPrefix \o <<"Required element ", "$", name, " was not found.">>)

\* the value thrown for a settings path that does not lead to an object
NotAnObjectError(chain) ==
  StringError(errPrefix \o <<"Drupal.settings.">> \o chain \o <<" is not an object.">>)

\* the built-in default settings
DefaultSettings == Obj([k \in {"debug"} |-> Bool(TRUE)])

\* a start of preprocessing that leaves the default out
InitSettings_NoDefault(behavior) == Or(behavior.settings, Obj(NoProps))

\* lines 168-172: behavior.settings after the default has been laid under it
InitSettings(behavior) ==
  Extend(DefaultSettings, Or(behavior.settings, Obj(NoProps)))

\* a merge whose $.extend has the settings tree for its target
MergeDrupalSettings_IntoTree(behavior, settings) ==
  [behavior |-> behavior, err |-> NoError,
   settings |-> Extend(settings, behavior.settings)]

\* lines 174-183: merge the settings found at behavior.drupalSettings; the
\* behavior and the settings tree as the merge leaves them, and the value
\* thrown.  $.extend writes to its first argument, which is
\* behavior.settings: the tree is left as it was passed.
MergeDrupalSettings(behavior, settings) ==
  IF TypeOfPath(behavior.drupalSettings) = "object"
  THEN LET inlineSettings == getChainedValue(settings, behavior.drupalSettings.chain)
       IN IF inlineSettings.err # NoError
          THEN [behavior |-> behavior, err |-> inlineSettings.err,
                settings |-> settings]
          ELSE IF TypeOf(inlineSettings.value) = "object"
          THEN [behavior |-> [behavior EXCEPT
                   !.settings = Extend(behavior.settings, inlineSettings.value)],
                err |-> NoError, settings |-> settings]
          ELSE [behavior |-> behavior,
                err |-> NotAnObjectError(behavior.drupalSettings.chain),
                settings |-> settings]
  ELSE [behavior |-> behavior, err |-> NoError, settings |-> settings]

\* lines 199-204: the nodes stored for one element
StoreElement(behavior, element, d) ==
  IF Truthy(element.context) /\ element.context.s \in ElemNames
     /\ behavior.handles[element.context.s].def
  THEN QueryIn(element.selector, behavior.handles[element.context.s].nodes)
  ELSE Query(element.selector, d)

\* lines 191-210: load the elements from index e on
\* line 199-200: the handle that is read as the scope of element e, if one
\* is; fresh tells whether an element of that name was stored earlier in
\* this pass of the loop
ScopeRead(behavior, element, e) ==
  IF Truthy(element.context) /\ element.context.s \in ElemNames
     /\ behavior.handles[element.context.s].def
  THEN <<[element |-> element.name, scope |-> element.context.s,
          fresh |-> \E i \in 1..(e - 1) :
                      behavior.elements[i].name = element.context.s]>>
  ELSE <<>>

RECURSIVE LoadElements(_, _, _)
LoadElements(behavior, e, d) ==
  IF e > Len(behavior.elements)
  THEN [behavior |-> behavior, err |-> NoError, reads |-> <<>>]
  ELSE LET element == [behavior.elements[e] EXCEPT
                         !.required = Or(@, Bool(FALSE)),
                         !.context = Or(@, Bool(FALSE))]
           b1 == [behavior EXCEPT !.elements[e] = element]
           found == StoreElement(b1, element, d)
           b2 == [b1 EXCEPT !.handles[element.name] = Handle(found)]
           read == ScopeRead(b1, element, e)
       IN IF Truthy(element.required) /\ Cardinality(found) = 0
          THEN [behavior |-> b2, err |-> RequiredError(element.name), reads |-> read]
          ELSE [LoadElements(b2, e + 1, d) EXCEPT !.reads = read \o @]

\* Drupal.preprocessBehavior(behavior, context, settings): the behavior and
\* the settings tree as they are left, the value thrown (NoError when it
\* returns) and the handles read as scopes
preprocessBehavior(behavior, context, settings, d) ==
  LET b1 == [behavior EXCEPT !.settings = InitSettings(behavior)]
      merged == MergeDrupalSettings(b1, settings)
      loaded == LoadElements(merged.behavior, 1, d)
  IN IF merged.err # NoError
     THEN [behavior |-> merged.behavior, err |-> merged.err,
           settings |-> merged.settings, reads |-> <<>>]
     ELSE [behavior |-> loaded.behavior, err |-> loaded.err,
           settings |-> merged.settings, reads |-> loaded.reads]

\* the value thrown for a request of an element that was never declared
NotDeclaredError(name) ==
  StringError(errPrefix \o <<"Element ", name, " is not declared.">>)

\* an accessor that answers an undeclared name with an empty match set
getElement_EmptyForUnknown(behavior, name, context, d) ==
  [err |-> NoError,
   nodes |-> IF \E e \in 1..Len(behavior.elements) : behavior.elements[e].name = name
             THEN LET e == CHOOSE e \in 1..Len(behavior.elements) :
                             behavior.elements[e].name = name
                  IN IF context = Document
                     THEN Query(behavior.elements[e].selector, d)
                     ELSE QueryIn(behavior.elements[e].selector, {context}) \cap d
             ELSE {}]

\* behavior.getElement(name), the accessor preprocessing installs: the
\* selector of the declared element is queried again at the time of the
\* request; a name that was never declared is a failure of configuration
getElement(behavior, name, context, d) ==
  IF \E e \in 1..Len(behavior.elements) : behavior.elements[e].name = name
  THEN LET e == CHOOSE e \in 1..Len(behavior.elements) :
                  behavior.elements[e].name = name
       IN [err |-> NoError,
           nodes |-> IF context = Document
                     THEN Query(behavior.elements[e].selector, d)
                     ELSE QueryIn(behavior.elements[e].selector, {context}) \cap d]
  ELSE [err |-> NotDeclaredError(name), nodes |-> {}]

----------------------------------------------------------------------------
(* Drupal._attachBehavior, in the steps the walker takes.                  *)

\* a walker that takes any truthy preprocess flag for an opt-in
WantsPreprocess_Truthy(behavior) == Truthy(behavior.preprocess)

\* line 66: typeof behavior.preprocess !== 'undefined' && behavior.preprocess === true
WantsPreprocess(behavior) ==
  TypeOf(behavior.preprocess) # "undefined" /\ behavior.preprocess = Bool(TRUE)

\* line 78: the warning line
WarnLine(name, str) ==
  <<"Drupal Behavior '", name, "' was not attached. ">> \o str

\* a catch block that passes every error on
Catch_RethrowsAll(behavior, name, err) == [warn |-> <<>>, rethrow |-> err]

\* a catch block that warns whatever settings.debug says
Catch_WarnsAlways(behavior, name, err) ==
  IF IndexOfTagIsZero(ErrToString(err))
  THEN [warn |-> <<WarnLine(name, ErrToString(err))>>, rethrow |-> NoError]
  ELSE [warn |-> <<>>, rethrow |-> err]

\* lines 71-84: the catch block; the lines it warns and the value it rethrows
Catch(behavior, name, err) ==
  LET str == ErrToString(err)
  IN IF IndexOfTagIsZero(str)
     THEN [warn |-> IF Truthy(GetProp(behavior.settings, "debug"))
                    THEN <<WarnLine(name, str)>> ELSE <<>>,
           rethrow |-> NoError]
     ELSE [warn |-> <<>>, rethrow |-> err]

\* lines 15-19 and 33: is the behavior's attach a function
IsAttachable(behavior) == behavior.attach

\* a guard of Drupal.attachBehavior that asks only for a registered object
attachBehaviorGuard_AnyObject(registry, registered, name) == name \in registered

\* line 33: typeof Drupal.behaviors[name] === 'object' &&
\* $.isFunction(Drupal.behaviors[name].attach)
attachBehaviorGuard(registry, registered, name) ==
  name \in registered /\ IsAttachable(registry[name])

\* lines 51-53: Drupal.detachBehavior's body once its arguments are defaulted.
\* The guard inspects Drupal.behaviors[name].detach, the call is made on
\* this, which is the Drupal object: Drupal.detach is no function, so the
\* call raises a TypeError and no detach routine of a behavior runs.
detachBehavior(registry, registered, name, context, settings, trigger) ==
  IF name \in registered /\ registry[name].detach
  THEN [calls |-> <<>>,
        err |-> ErrorObject("TypeError", <<"this.detach is not a function">>)]
  ELSE [calls |-> <<>>, err |-> NoError]

----------------------------------------------------------------------------
(* The inputs: settings trees, paths, behaviors, arguments.                *)

\* Drupal.settings as the page embeds it
PageSettings ==
  Obj([k \in {"myModule"} |->
    Obj([j \in {"myBehaviorSettings", "count"} |->
      IF j = "count" THEN Num("5")
      ELSE Obj([i \in {"staticValue", "debug"} |->
             IF i = "debug" THEN Bool(FALSE) ELSE Str("Chris")])])])

\* a settings tree a caller passes for newly inserted content
AjaxSettings ==
  Obj([k \in {"myModule"} |->
    Obj([j \in {"myBehaviorSettings", "count"} |->
      IF j = "count" THEN Null
      ELSE Obj([i \in {"currentTime"} |-> Num("12")])])])

SettingsArgs == {Undefined, AjaxSettings}

ContextArg(given, node) == [given |-> given, node |-> node]
\* the context is left out, or is a node that holds newly inserted content
ContextArgs == {ContextArg(FALSE, Document)} \cup {ContextArg(TRUE, n) : n \in TopLevel}

TriggerArgs == {Undefined, Str("serialize")}

PathToSettings == <<"myModule", ".", "myBehaviorSettings">>
PathToCount    == <<"myModule", ".", "count">>
PathToNothing  == <<"myModule", ".", "zip">>
PathBelowCount == <<"myModule", ".", "count", ".", "deep">>

Paths ==
  {NoPath}
  \cup {PrimitivePath(c) : c \in {PathToSettings, PathToCount}}
  \cup {StringObjectPath(c) :
          c \in {PathToSettings, PathToCount, PathToNothing, PathBelowCount}}

DeclaredSettings ==
  {Undefined,
   Obj([k \in {"debug", "staticValue"} |->
          IF k = "debug" THEN Bool(FALSE) ELSE Str("Own")])}

ElementLists ==
  { <<Element("item", ".item", Bool(TRUE), Undefined)>>,
    <<Element("gone", ".gone", Bool(TRUE), Undefined)>>,
    <<Element("wrap", ".wrap", Undefined, Undefined),
      Element("item", ".item", Bool(TRUE), Str("wrap"))>>,
    <<Element("item", ".item", Bool(TRUE), Str("wrap")),
      Element("wrap", ".wrap", Undefined, Undefined)>> }

Behavior(attach, detach, preprocess, path, settings, elements) ==
  [attach |-> attach, detach |-> detach, preprocess |-> preprocess,
   drupalSettings |-> path, settings |-> settings, elements |-> elements,
   handles |-> [n \in ElemNames |-> NoHandle]]

\* behaviors that opt in to preprocessing
OptedIn ==
  {Behavior(TRUE, FALSE, Bool(TRUE), p, s, e) :
     p \in Paths, s \in DeclaredSettings, e \in ElementLists}

\* behaviors the walker attaches directly, or not at all
Others ==
  {Behavior(TRUE, TRUE, Undefined, PrimitivePath(PathToSettings),
            CHOOSE s \in DeclaredSettings : s # Undefined,
            <<Element("gone", ".gone", Bool(TRUE), Undefined)>>),
   Behavior(TRUE, FALSE, Num("1"), NoPath, Undefined, <<>>),
   Behavior(FALSE, FALSE, Bool(TRUE), NoPath, Undefined, <<>>)}

Names == {"alpha", "beta"}
CallNames == Names \cup {"ghost"}
Orders == {<<"alpha", "beta">>, <<"beta", "alpha">>}

\* the element names an attach routine asks its behavior for
RequestNames == {"item", "undeclared"}

\* the errors an attach routine may throw
AttachErrors ==
  {ErrorObject("Error", <<"boom">>),
   StringError(<<"[PREPROCESS]", " thrown by attach">>)}

NoOp == [name |-> "none", args |-> <<>>, context |-> Document, settings |-> Undefined,
         trigger |-> Undefined, todo |-> <<>>, inTry |-> FALSE, target |-> ""]

NotRun == [ran |-> FALSE, err |-> NoError]
Ran(err) == [ran |-> TRUE, err |-> err]

----------------------------------------------------------------------------

Init ==
  /\ behaviors \in {[n \in Names |-> IF n = "alpha" THEN a ELSE b] :
                      a \in OptedIn, b \in Others}
  /\ order \in Orders
  /\ Drupal_settings = PageSettings
  /\ dom = Nodes
  /\ pc = "idle"
  /\ op = NoOp
  /\ idx = 1
  /\ cycles = 0
  /\ attachLog = <<>>
  /\ detachLog = <<>>
  /\ warnLog = <<>>
  /\ ppLog = [n \in Names |-> NotRun]
  /\ declared = behaviors
  /\ scopeLog = <<>>
  /\ elementLog = <<>>
  /\ thrown = [n \in Names |-> NoError]
  /\ escaped = NoError
  /\ before = behaviors

\* a call begins: the logs of the previous call are gone
Begin(call) ==
  /\ pc = "idle"
  /\ cycles < MaxCycles
  /\ cycles' = cycles + 1
  /\ op' = call
  /\ idx' = 1
  /\ before' = behaviors
  /\ UNCHANGED <<Drupal_settings, dom, order, declared, scopeLog, elementLog>>

\* context = context || document
DefaultContext(arg) == IF arg.given THEN arg.node ELSE Document

\* settings = settings || Drupal.settings
DefaultSettingsArg(arg) == Or(arg, Drupal_settings)

\* trigger = trigger || 'unload'
DefaultTrigger(arg) == Or(arg, Str("unload"))

\* Drupal.attachBehaviors(context, settings), up to the start of $.each
CallAttachBehaviors ==
  \E c \in ContextArgs, s \in SettingsArgs :
    /\ Begin([name |-> "attachBehaviors", args |-> <<c, s>>,
              context |-> DefaultContext(c),
              settings |-> DefaultSettingsArg(s), trigger |-> Undefined,
              todo |-> order, inTry |-> FALSE, target |-> ""])
    /\ pc' = "walk"
    /\ UNCHANGED <<behaviors, attachLog, detachLog, warnLog, ppLog, thrown, escaped>>

\* Drupal.attachBehavior(name, context, settings), up to its guard
CallAttachBehavior ==
  \E n \in CallNames, c \in ContextArgs, s \in SettingsArgs :
    /\ Begin([name |-> "attachBehavior", args |-> <<c, s>>,
              context |-> DefaultContext(c),
              settings |-> DefaultSettingsArg(s), trigger |-> Undefined,
              todo |-> IF attachBehaviorGuard(behaviors, Names, n)
                       THEN <<n>> ELSE <<>>,
              inTry |-> FALSE, target |-> n])
    /\ pc' = "walk"
    /\ UNCHANGED <<behaviors, attachLog, detachLog, warnLog, ppLog, thrown, escaped>>

\* Drupal.detachBehavior(name, context, settings, trigger), whole
CallDetachBehavior ==
  \E n \in CallNames, c \in ContextArgs, s \in SettingsArgs, t \in TriggerArgs :
    LET call == [name |-> "detachBehavior", args |-> <<c, s, t>>,
                 context |-> DefaultContext(c),
                 settings |-> DefaultSettingsArg(s), trigger |-> DefaultTrigger(t),
                 todo |-> <<n>>, inTry |-> FALSE, target |-> n]
        r == detachBehavior(behaviors, Names, n, call.context, call.settings,
                            call.trigger)
    IN /\ Begin(call)
       /\ detachLog' = detachLog \o r.calls
       /\ escaped' = r.err
       /\ pc' = "done"
       /\ UNCHANGED <<behaviors, attachLog, warnLog, ppLog, thrown>>

\* the behavior the walker is at
Current == op.todo[idx]

\* the catch block of _attachBehavior acts on err thrown inside the try
Caught(behavior, err) ==
  LET c == Catch(behavior, Current, err)
  IN /\ warnLog' = warnLog \o c.warn
     /\ escaped' = c.rethrow
     /\ IF c.rethrow = NoError
        THEN pc' = "walk" /\ idx' = idx + 1
        ELSE pc' = "done" /\ idx' = idx

\* $.each has visited every behavior: the call returns
WalkEnd ==
  /\ pc = "walk"
  /\ idx > Len(op.todo)
  /\ pc' = "done"
  /\ UNCHANGED <<behaviors, Drupal_settings, dom, op, idx, cycles, order, attachLog,
                 detachLog, warnLog, ppLog, thrown, escaped, before, declared,
                 scopeLog, elementLog>>

\* line 16: a behavior whose attach is no function is passed over
WalkSkip ==
  /\ pc = "walk"
  /\ idx <= Len(op.todo)
  /\ op.name = "attachBehaviors"
  /\ ~IsAttachable(behaviors[Current])
  /\ idx' = idx + 1
  /\ UNCHANGED <<behaviors, Drupal_settings, dom, pc, op, cycles, order, attachLog,
                 detachLog, warnLog, ppLog, thrown, escaped, before, declared,
                 scopeLog, elementLog>>

\* lines 66-68: the behavior opted in, Drupal.preprocessBehavior runs
WalkPreprocess ==
  /\ pc = "walk"
  /\ idx <= Len(op.todo)
  /\ op.name = "attachBehaviors" => IsAttachable(behaviors[Current])
  /\ WantsPreprocess(behaviors[Current])
  /\ LET r == preprocessBehavior(behaviors[Current], op.context, op.settings, dom)
     IN /\ behaviors' = [behaviors EXCEPT ![Current] = r.behavior]
        /\ ppLog' = [ppLog EXCEPT ![Current] = Ran(r.err)]
        /\ scopeLog' = scopeLog \o [i \in 1..Len(r.reads) |->
                                      [behavior |-> Current] @@ r.reads[i]]
        \* the settings argument is a reference: what the preprocessor
        \* leaves in the tree is what the caller, and Drupal.settings when
        \* the argument defaulted to it (lines 12 and 31), holds afterwards
        /\ Drupal_settings' = IF Truthy(op.args[2]) THEN Drupal_settings
                               ELSE r.settings
        /\ IF r.err = NoError
           THEN /\ pc' = "attach"
                /\ op' = [op EXCEPT !.inTry = TRUE, !.settings = r.settings]
                /\ UNCHANGED <<idx, warnLog, escaped>>
           ELSE /\ Caught(r.behavior, r.err)
                /\ op' = [op EXCEPT !.settings = r.settings]
  /\ UNCHANGED <<dom, cycles, order, attachLog, detachLog, thrown, before, declared,
                 elementLog>>

\* lines 86-88: the behavior did not opt in, attach is called directly
WalkDirect ==
  /\ pc = "walk"
  /\ idx <= Len(op.todo)
  /\ op.name = "attachBehaviors" => IsAttachable(behaviors[Current])
  /\ ~WantsPreprocess(behaviors[Current])
  /\ pc' = "attach"
  /\ op' = [op EXCEPT !.inTry = FALSE]
  /\ UNCHANGED <<behaviors, Drupal_settings, dom, idx, cycles, order, attachLog,
                 detachLog, warnLog, ppLog, thrown, escaped, before, declared,
                 scopeLog, elementLog>>

AttachCall == [name |-> Current, context |-> op.context, settings |-> op.settings]

\* the attach routine of a preprocessed behavior asks for an element, as
\* in this.getElement('loginForm'), once while it runs
AttachGetsElement ==
  \E name \in RequestNames :
    /\ pc = "attach"
    /\ op.inTry
    /\ elementLog = <<>>
    /\ elementLog' = <<[behavior |-> Current, name |-> name,
                        result |-> getElement(behaviors[Current], name,
                                              op.context, dom)]>>
    /\ UNCHANGED <<behaviors, Drupal_settings, dom, pc, op, idx, cycles, order,
                   attachLog, detachLog, warnLog, ppLog, thrown, escaped, before,
                   declared, scopeLog>>

\* behavior.attach(context, settings) runs and returns
AttachReturns ==
  /\ pc = "attach"
  /\ attachLog' = Append(attachLog, AttachCall)
  /\ pc' = "walk"
  /\ idx' = idx + 1
  /\ elementLog' = <<>>
  /\ UNCHANGED <<behaviors, Drupal_settings, dom, op, cycles, order, detachLog,
                 warnLog, ppLog, thrown, escaped, before, declared, scopeLog>>

\* behavior.attach(context, settings) runs and throws
AttachThrows ==
  \E err \in AttachErrors :
    /\ pc = "attach"
    /\ attachLog' = Append(attachLog, AttachCall)
    /\ thrown' = [thrown EXCEPT ![Current] = err]
    /\ IF op.inTry
       THEN Caught(behaviors[Current], err)
       ELSE /\ escaped' = err
            /\ pc' = "done"
            /\ UNCHANGED <<idx, warnLog>>
    /\ elementLog' = <<>>
    /\ UNCHANGED <<behaviors, Drupal_settings, dom, op, cycles, order, detachLog,
                   ppLog, before, declared, scopeLog>>

\* the call is over and its caller goes on
Return ==
  /\ pc = "done"
  /\ pc' = "idle"
  /\ op' = NoOp
  /\ idx' = 1
  /\ attachLog' = <<>>
  /\ detachLog' = <<>>
  /\ warnLog' = <<>>
  /\ ppLog' = [n \in Names |-> NotRun]
  /\ thrown' = [n \in Names |-> NoError]
  /\ escaped' = NoError
  /\ before' = behaviors
  /\ scopeLog' = <<>>
  /\ UNCHANGED <<behaviors, Drupal_settings, dom, cycles, order, declared, elementLog>>

\* between calls the page removes a node with its subtree
DomRemove ==
  \E n \in Removable \cap dom :
    /\ pc = "idle"
    /\ cycles < MaxCycles
    /\ dom' = dom \ Subtree(n)
    /\ UNCHANGED <<behaviors, Drupal_settings, pc, op, idx, cycles, order, attachLog,
                   detachLog, warnLog, ppLog, thrown, escaped, before, declared,
                 scopeLog, elementLog>>

\* between calls the page puts a removed node back with its subtree
DomInsert ==
  \E n \in Removable \ dom :
    /\ pc = "idle"
    /\ cycles < MaxCycles
    /\ dom' = dom \cup Subtree(n)
    /\ UNCHANGED <<behaviors, Drupal_settings, pc, op, idx, cycles, order, attachLog,
                   detachLog, warnLog, ppLog, thrown, escaped, before, declared,
                 scopeLog, elementLog>>

Next ==
  \/ CallAttachBehaviors
  \/ CallAttachBehavior
  \/ CallDetachBehavior
  \/ WalkEnd
  \/ WalkSkip
  \/ WalkPreprocess
  \/ WalkDirect
  \/ AttachGetsElement
  \/ AttachReturns
  \/ AttachThrows
  \/ Return
  \/ DomRemove
  \/ DomInsert

Spec == Init /\ [][Next]_vars

----------------------------------------------------------------------------
(* Vocabulary of the properties.                                           *)

\* the indices of the attach invocations made on behavior n in this call
AttachesOf(n) == {i \in 1..Len(attachLog) : attachLog[i].name = n}

\* the warning lines of this call that name behavior n
WarningsOf(n) == {i \in 1..Len(warnLog) : warnLog[i][2] = n}

\* the text of a thrown value starts with the preprocessor's tag
Tagged(err) ==
  err.kind = "string" /\ Len(err.msg) > 0 /\ err.msg[1] = "[PREPROCESS]"

\* preprocessing of n ran in this call and ended in a preprocessing failure
PreprocessFailed(n) == ppLog[n].ran /\ Tagged(ppLog[n].err)

\* preprocessing of n ran in this call and returned
PreprocessSucceeded(n) == ppLog[n].ran /\ ppLog[n].err = NoError

\* where the walker of this call meets behavior n (0: it does not)
PositionOf(n) ==
  IF \E i \in 1..Len(op.todo) : op.todo[i] = n
  THEN CHOOSE i \in 1..Len(op.todo) : op.todo[i] = n
  ELSE 0

\* the walker of this call is done with behavior n
Passed(n) == PositionOf(n) > 0 /\ PositionOf(n) < idx

\* the nodes a selector matches inside an attach context (the document or a node)
MatchesInContext(selector, context, d) ==
  IF context = Document THEN Query(selector, d)
  ELSE QueryIn(selector, {context}) \cap d

\* behavior b declares a required element that matches nothing in the context
RequiredMissingIn(b, context) ==
  \E e \in 1..Len(b.elements) :
    /\ b.elements[e].required = Bool(TRUE)
    /\ MatchesInContext(b.elements[e].selector, context, dom) = {}

\* the error that left the call was raised while the walker was at n
EscapedAt(n) ==
  /\ pc = "done"
  /\ escaped # NoError
  /\ idx <= Len(op.todo)
  /\ op.todo[idx] = n

----------------------------------------------------------------------------
(* C1: in a Drupal.attachBehaviors call, a behavior with preprocess ===    *)
(* true that declares a required element whose selector matches nothing in *)
(* the attach context never has its attach invoked, and no error raised    *)
(* while the walker is at that behavior leaves the call.  (A TypeError of  *)
(* the script engine raised by the settings walk is set aside here: it is  *)
(* the subject of the property about getChainedValue.)                     *)
C1_RequiredMissingNeverAttaches ==
  op.name = "attachBehaviors" =>
    \A n \in Names :
      (before[n].preprocess = Bool(TRUE) /\ RequiredMissingIn(before[n], op.context))
        => (AttachesOf(n) = {} /\ ~(EscapedAt(n) /\ escaped.kind # "TypeError"))

(* C2: in a Drupal.attachBehaviors call, once the preprocessing of a       *)
(* behavior has failed the walker goes on past it with no error leaving    *)
(* the call there, and every behavior with an invokable attach that the    *)
(* walker has passed either had its attach invoked or failed its own       *)
(* preprocessing.                                                          *)
C2_FailureDoesNotStopOthers ==
  op.name = "attachBehaviors" =>
    /\ \A n \in Names : PreprocessFailed(n) => (Passed(n) /\ ~EscapedAt(n))
    /\ \A m \in Names :
         (Passed(m) /\ before[m].attach) => (AttachesOf(m) # {} \/ PreprocessFailed(m))
    /\ (pc = "done" /\ escaped = NoError) => \A m \in Names : Passed(m)

\* a call has ended in which the first behavior failed preprocessing and the
\* second one was attached
C2_Witness ==
  /\ op.name = "attachBehaviors"
  /\ pc = "done"
  /\ escaped = NoError
  /\ \E n, m \in Names :
       /\ PositionOf(n) < PositionOf(m)
       /\ PreprocessFailed(n)
       /\ AttachesOf(n) = {}
       /\ AttachesOf(m) # {}

(* C3: every error thrown from inside the attach routine of a behavior     *)
(* with preprocess === true, whatever its text, leaves the call unchanged. *)
C3_AttachErrorsPropagate ==
  \A n \in Names :
    (before[n].preprocess = Bool(TRUE) /\ thrown[n] # NoError) => escaped = thrown[n]

(* C4: a behavior whose preprocess flag is absent or not strictly true is  *)
(* attached with exactly the context and settings given to the walker (the *)
(* document and Drupal.settings when left out), exactly once, without the  *)
(* preprocessor running and with no field of the behavior object changed.  *)
C4_DirectAttachUntouched ==
  op.name \in {"attachBehaviors", "attachBehavior"} =>
    \A n \in Names :
      before[n].preprocess # Bool(TRUE) =>
        /\ behaviors[n] = before[n]
        /\ ~ppLog[n].ran
        /\ \A i \in AttachesOf(n) :
             /\ attachLog[i].context =
                  (IF op.args[1].given THEN op.args[1].node ELSE Document)
             /\ attachLog[i].settings =
                  (IF op.args[2] = Undefined THEN Drupal_settings ELSE op.args[2])
        /\ (Passed(n) /\ before[n].attach) => Cardinality(AttachesOf(n)) = 1

\* a behavior that did not opt in, and that declares settings and elements,
\* has been attached for a node as context and a passed-in settings tree
C4_Witness ==
  /\ pc = "done"
  /\ \E n \in Names :
       /\ before[n].preprocess # Bool(TRUE)
       /\ before[n].elements # <<>>
       /\ before[n].settings # Undefined
       /\ AttachesOf(n) # {}
       /\ op.args[1].given
       /\ op.args[2] # Undefined

----------------------------------------------------------------------------
(* Vocabulary of the properties about settings.                            *)

\* the settings path of b is a non-empty dotted string
HasPath(b) == b.drupalSettings.t \in {"string", "String"} /\ b.drupalSettings.chain # <<>>

\* the property names a dotted path spells, in order
NamesOf(chain) == [i \in 1..((Len(chain) + 1) \div 2) |-> chain[2 * i - 1]]

\* every segment of the path is present in the tree, from segment p on
RECURSIVE SegmentsPresent(_, _, _)
SegmentsPresent(value, names, p) ==
  \/ p > Len(names)
  \/ /\ value.t = "object"
     /\ names[p] \in DOMAIN value.m
     /\ SegmentsPresent(value.m[names[p]], names, p + 1)

\* the value stored at a path all of whose segments are present
RECURSIVE ValueAt(_, _, _)
ValueAt(value, names, p) ==
  IF p > Len(names) THEN value ELSE ValueAt(value.m[names[p]], names, p + 1)

PathPresent(tree, chain) == SegmentsPresent(tree, NamesOf(chain), 1)
PathValue(tree, chain) == ValueAt(tree, NamesOf(chain), 1)

\* the first call on the registry: before holds the declared behaviors
FirstCall == cycles = 1 /\ op.name \in {"attachBehaviors", "attachBehavior"}

\* b's declared settings, an empty mapping when it declares none
Declared(b) == IF b.settings = Undefined THEN Obj(NoProps) ELSE b.settings

\* last writer wins, key by key
Overlay(low, high) ==
  Obj([k \in DOMAIN low.m \cup DOMAIN high.m |->
         IF k \in DOMAIN high.m THEN high.m[k] ELSE low.m[k]])

----------------------------------------------------------------------------
(* C5: after a successful preprocess of a behavior whose drupalSettings is *)
(* a non-empty dotted string path that resolves to a mapping in the        *)
(* settings tree, behavior.settings is the built-in default overlaid by    *)
(* the declared settings overlaid by the mapping found at the path.        *)
C5_SettingsMergePrecedence ==
  FirstCall =>
    \A n \in Names :
      ( /\ PreprocessSucceeded(n)
        /\ HasPath(before[n])
        /\ PathPresent(op.settings, before[n].drupalSettings.chain)
        /\ PathValue(op.settings, before[n].drupalSettings.chain).t = "object" )
      => behaviors[n].settings =
           Overlay(Overlay(DefaultSettings, Declared(before[n])),
                   PathValue(op.settings, before[n].drupalSettings.chain))

(* C6: when a segment of a behavior's drupalSettings path is absent from   *)
(* the settings tree, preprocessing raises no error on that account,       *)
(* behavior.settings is the default overlaid by the declared settings, and *)
(* attach is invoked when the required elements are there.                 *)
C6_MissingPathIsIgnored ==
  FirstCall =>
    \A n \in Names :
      ( /\ ppLog[n].ran
        /\ HasPath(before[n])
        /\ ~PathPresent(op.settings, before[n].drupalSettings.chain)
        /\ ppLog[n].err.kind # "TypeError" )
      => /\ behaviors[n].settings = Overlay(DefaultSettings, Declared(before[n]))
         /\ ppLog[n].err # NotAnObjectError(before[n].drupalSettings.chain)

(* C7: when a behavior's drupalSettings path leads to a value that is not  *)
(* a mapping (here: a number, as in settings.a.b = 5), preprocessing fails *)
(* with a '[PREPROCESS] ' error, the attach of the behavior is not invoked *)
(* and no error leaves the call there.                                     *)
C7_NonObjectPathFails ==
  FirstCall =>
    \A n \in Names :
      ( /\ ppLog[n].ran
        /\ HasPath(before[n])
        /\ PathPresent(op.settings, before[n].drupalSettings.chain)
        /\ PathValue(op.settings, before[n].drupalSettings.chain).t = "number" )
      => /\ Tagged(ppLog[n].err)
         /\ AttachesOf(n) = {}
         /\ ~EscapedAt(n)

(* C8: a behavior skipped because its preprocessing failed gets exactly    *)
(* one warning line, naming it and giving the failure reason, when its     *)
(* settings.debug is true, and no warning line at all when it is false.    *)
C8_WarningFollowsDebug ==
  \A n \in Names :
    PreprocessFailed(n) =>
      IF behaviors[n].settings.m["debug"] = Bool(TRUE)
      THEN /\ Cardinality(WarningsOf(n)) = 1
           /\ \A i \in WarningsOf(n) :
                warnLog[i] = <<"Drupal Behavior '", n, "' was not attached. ">>
                               \o ppLog[n].err.msg
      ELSE /\ behaviors[n].settings.m["debug"] = Bool(FALSE)
           /\ WarningsOf(n) = {}

\* a behavior with debug true was skipped and its one warning was written
C8_Witness ==
  \E n \in Names :
    /\ PreprocessFailed(n)
    /\ behaviors[n].settings.m["debug"] = Bool(TRUE)
    /\ AttachesOf(n) = {}
    /\ Len(warnLog) = 1

(* C9: a behavior that declares no debug setting and gets none from its    *)
(* settings path has settings.debug false after preprocessing, and a       *)
(* preprocessing failure of it writes no warning.                          *)
C9_DebugDefaultsFalse ==
  FirstCall =>
    \A n \in Names :
      ( /\ ppLog[n].ran
        /\ "debug" \notin DOMAIN Declared(before[n]).m
        /\ ~HasPath(before[n]) )
      => /\ behaviors[n].settings.m["debug"] = Bool(FALSE)
         /\ WarningsOf(n) = {}

(* C10: Drupal.detachBehavior invokes the detach routine of the named      *)
(* behavior exactly once with (context, settings, trigger), trigger being  *)
(* 'unload' when left out, if and only if the behavior has a detach        *)
(* routine; otherwise it does nothing; in both cases no error is raised.   *)
C10_DetachInvokesRoutine ==
  (op.name = "detachBehavior" /\ pc = "done") =>
    LET n == op.todo[1]
        trigger == IF op.args[3] = Undefined THEN Str("unload") ELSE op.args[3]
    IN /\ escaped = NoError
       /\ detachLog =
            IF n \in Names /\ before[n].detach
            THEN <<[name |-> n, context |-> op.context, settings |-> op.settings,
                    trigger |-> trigger]>>
            ELSE <<>>

----------------------------------------------------------------------------
(* Drupal.attachBehavior.                                                  *)

\* the name given to Drupal.attachBehavior has no behavior with an
\* invokable attach behind it
NothingToAttach == op.target \notin Names \/ ~before[op.target].attach

(* C11, as stated: a Drupal.attachBehavior call on a name with no          *)
(* registered behavior, or with a behavior whose attach is not invokable,  *)
(* ends with an error raised to the caller.                                *)
C11_AttachBehaviorRaises ==
  (op.name = "attachBehavior" /\ pc = "done" /\ NothingToAttach)
    => escaped # NoError

(* C11, amended: a Drupal.attachBehavior call on a name with no registered *)
(* behavior, or with a behavior whose attach is not invokable, raises      *)
(* nothing and does nothing: no attach, no preprocessing, no warning, no   *)
(* behavior changed.  On any other name the call touches that behavior     *)
(* alone and treats it as Drupal.attachBehaviors does: a behavior that did *)
(* not opt in is attached directly, once, with the call's context and      *)
(* settings, and is not preprocessed; a behavior that opted in is          *)
(* preprocessed, its attach is invoked once and only after preprocessing   *)
(* returned, and a preprocessing failure leaves the call without an error. *)
C11_AttachBehaviorSilent ==
  op.name = "attachBehavior" =>
    IF NothingToAttach
    THEN /\ escaped = NoError
         /\ attachLog = <<>>
         /\ warnLog = <<>>
         /\ \A n \in Names : ~ppLog[n].ran
         /\ behaviors = before
    ELSE LET t == op.target
         IN /\ \A m \in Names \ {t} :
                 AttachesOf(m) = {} /\ ~ppLog[m].ran /\ behaviors[m] = before[m]
            /\ \A i \in AttachesOf(t) :
                 attachLog[i].context = op.context /\ attachLog[i].settings = op.settings
            /\ before[t].preprocess # Bool(TRUE) =>
                 /\ ~ppLog[t].ran
                 /\ behaviors[t] = before[t]
                 /\ pc = "done" => Cardinality(AttachesOf(t)) = 1
            /\ before[t].preprocess = Bool(TRUE) =>
                 /\ pc = "done" => ppLog[t].ran
                 /\ AttachesOf(t) # {} => PreprocessSucceeded(t)
                 /\ (pc = "done" /\ PreprocessSucceeded(t))
                      => Cardinality(AttachesOf(t)) = 1
                 /\ PreprocessFailed(t) => escaped = NoError

\* a Drupal.attachBehavior call on a registered behavior without an
\* invokable attach has returned
C11_Witness ==
  /\ op.name = "attachBehavior"
  /\ pc = "done"
  /\ op.target \in Names
  /\ ~before[op.target].attach

----------------------------------------------------------------------------
(* Element lookups.                                                        *)

\* element e of behavior b names, in its context field, an element that is
\* declared before it in the list
ScopedByEarlier(b, e) ==
  /\ Truthy(b.elements[e].context)
  /\ \E i \in 1..(e - 1) : b.elements[i].name = b.elements[e].context.s

\* element e of behavior b has no context field
Unscoped(b, e) == ~Truthy(b.elements[e].context)

(* C12: when preprocessing of a behavior has returned, the handle stored   *)
(* for each declared element holds the matches of its selector inside the  *)
(* attach context of the call, or, for an element whose context field      *)
(* names an earlier-declared element, the matches inside that element's    *)
(* handle; nodes of the document outside the attach context are not in it. *)
C12_SelectorsScopedToContext ==
  op.name \in {"attachBehaviors", "attachBehavior"} =>
    \A n \in Names :
      PreprocessSucceeded(n) =>
        \A e \in 1..Len(before[n].elements) :
          LET element == before[n].elements[e]
              stored == behaviors[n].handles[element.name].nodes
          IN /\ Unscoped(before[n], e) =>
                  stored = MatchesInContext(element.selector, op.context, dom)
             /\ ScopedByEarlier(before[n], e) =>
                  stored = QueryIn(element.selector,
                                   behaviors[n].handles[element.context.s].nodes)

\* element e of behavior b names, in its context field, an element that no
\* earlier entry of the list declares: a forward reference or an unknown name
DanglingScope(b, e) ==
  /\ Truthy(b.elements[e].context)
  /\ ~\E i \in 1..(e - 1) : b.elements[i].name = b.elements[e].context.s

(* C13: in every attach cycle, preprocessing of a behavior one of whose    *)
(* elements names in its context field an element that is not resolved     *)
(* earlier in the same pass does not return: it ends in a preprocessing    *)
(* failure, and no handle is stored for that element from another scope.   *)
C13_ForwardReferenceRejected ==
  op.name \in {"attachBehaviors", "attachBehavior"} =>
    \A n \in Names :
      (ppLog[n].ran /\ \E e \in 1..Len(before[n].elements) : DanglingScope(before[n], e))
        => ~PreprocessSucceeded(n)

(* C14: in every attach cycle, each handle that an element lookup reads as *)
(* its scope was stored earlier in the same pass of preprocessing, never   *)
(* by a previous cycle; and attach of a behavior that opted in is invoked  *)
(* only when preprocessing returned in this cycle, that is, when every     *)
(* declared element's handle was stored anew.                              *)
C14_NoStaleHandle ==
  op.name \in {"attachBehaviors", "attachBehavior"} =>
    /\ \A i \in 1..Len(scopeLog) : scopeLog[i].fresh
    /\ \A n \in Names :
         (before[n].preprocess = Bool(TRUE) /\ AttachesOf(n) # {})
           => PreprocessSucceeded(n)

----------------------------------------------------------------------------
(* Settings across cycles.                                                 *)

\* the mapping found in this call's settings tree at the path behavior n
\* was declared with (no keys when the path does not lead to a mapping)
ResolvedNow(n) ==
  IF /\ HasPath(declared[n])
     /\ PathPresent(op.settings, declared[n].drupalSettings.chain)
     /\ PathValue(op.settings, declared[n].drupalSettings.chain).t = "object"
  THEN PathValue(op.settings, declared[n].drupalSettings.chain)
  ELSE Obj(NoProps)

\* the three things behavior.settings of n may be made of in this cycle
SettingsSources(n) == <<DefaultSettings, Declared(declared[n]), ResolvedNow(n)>>

(* C15: in every attach cycle, when preprocessing of a behavior has        *)
(* returned, each key of behavior.settings with its value comes from the   *)
(* built-in default, from the settings the behavior was declared with, or  *)
(* from the mapping resolved at its path in this cycle's settings tree; a  *)
(* key merged in by an earlier cycle and absent now is not there.          *)
C15_SettingsRecomputed ==
  op.name \in {"attachBehaviors", "attachBehavior"} =>
    \A n \in Names :
      PreprocessSucceeded(n) =>
        \A k \in DOMAIN behaviors[n].settings.m :
          \E i \in 1..3 :
            /\ k \in DOMAIN SettingsSources(n)[i].m
            /\ behaviors[n].settings.m[k] = SettingsSources(n)[i].m[k]

(* C16: no operation changes the settings tree it works on: Drupal.settings *)
(* stays as the page embedded it, and the tree a call was given (or        *)
(* Drupal.settings, when none was given) is, at every step of the call,    *)
(* the tree as it was passed; merging writes to behavior.settings only.    *)
C16_SettingsTreeUntouched ==
  /\ Drupal_settings = PageSettings
  /\ op.name \in {"attachBehaviors", "attachBehavior", "detachBehavior"} =>
       op.settings = (IF op.args[2] = Undefined THEN PageSettings ELSE op.args[2])

\* a preprocessing has merged the mapping at the behavior's path into
\* behavior.settings
C16_Witness ==
  \E n \in Names :
    /\ PreprocessSucceeded(n)
    /\ before[n].drupalSettings = StringObjectPath(PathToSettings)
    /\ op.args[2] = Undefined
    /\ "staticValue" \in DOMAIN behaviors[n].settings.m
    /\ behaviors[n].settings.m["staticValue"] = Str("Chris")

----------------------------------------------------------------------------
(* The walk of one Drupal.attachBehaviors call.                            *)

\* behavior n is one whose attach the walk is due to invoke
DueForAttach(n) ==
  /\ before[n].attach
  /\ before[n].preprocess # Bool(TRUE) \/ PreprocessSucceeded(n)

(* C17: in a Drupal.attachBehaviors call in which no attach routine        *)
(* throws, the behaviors are taken one after the other in enumeration      *)
(* order: nothing is preprocessed or attached for a behavior the walk has  *)
(* not reached, the attach invocations follow the enumeration order, none  *)
(* is made twice, and when the call is over every registered behavior has  *)
(* been visited and every behavior that did not opt in, or whose           *)
(* preprocessing returned, has had its attach invoked exactly once.        *)
C17_OneVisitEachInOrder ==
  (op.name = "attachBehaviors" /\ \A n \in Names : thrown[n] = NoError) =>
    /\ \A n \in Names :
         /\ PositionOf(n) > idx => (~ppLog[n].ran /\ AttachesOf(n) = {})
         /\ Cardinality(AttachesOf(n)) <= 1
    /\ \A i, j \in 1..Len(attachLog) :
         i < j => PositionOf(attachLog[i].name) < PositionOf(attachLog[j].name)
    /\ pc = "done" =>
         /\ idx = Len(order) + 1
         /\ \A n \in Names : DueForAttach(n) => Cardinality(AttachesOf(n)) = 1

(* C18: whenever the attach routine of a behavior with preprocess === true *)
(* is being invoked or has been invoked in a call, preprocessing of that   *)
(* behavior has returned earlier in the same call, and behavior.settings   *)
(* is an object that holds at least the debug key.                         *)
C18_AttachSeesSettings ==
  op.name \in {"attachBehaviors", "attachBehavior"} =>
    \A n \in Names :
      (/\ before[n].preprocess = Bool(TRUE)
       /\ AttachesOf(n) # {} \/ (pc = "attach" /\ Current = n))
        => /\ PreprocessSucceeded(n)
           /\ behaviors[n].settings.t = "object"
           /\ "debug" \in DOMAIN behaviors[n].settings.m

\* attach of an opted-in behavior that declared no settings of its own is
\* being invoked
C18_Witness ==
  /\ op.name = "attachBehaviors"
  /\ pc = "attach"
  /\ before[Current].preprocess = Bool(TRUE)
  /\ declared[Current].settings = Undefined
  /\ declared[Current].drupalSettings = NoPath

----------------------------------------------------------------------------
(* The element accessor.                                                   *)

\* behavior n was registered without an element of this name
NeverDeclared(n, name) ==
  \A e \in 1..Len(declared[n].elements) : declared[n].elements[e].name # name

----------------------------------------------------------------------------
(* getChainedValue.                                                        *)

(* C20: whenever preprocessing has walked a settings path with             *)
(* getChainedValue, the walk raised no error, and when every segment of    *)
(* the path is present in the settings tree it returned the value stored   *)
(* there.                                                                  *)
C20_ChainedValueNeverRaises ==
  op.name \in {"attachBehaviors", "attachBehavior"} =>
    \A n \in Names :
      (ppLog[n].ran /\ TypeOfPath(before[n].drupalSettings) = "object") =>
        LET chain == before[n].drupalSettings.chain
            found == getChainedValue(op.settings, chain)
        IN /\ found.err = NoError
           /\ ppLog[n].err.kind # "TypeError"
           /\ PathPresent(op.settings, chain) =>
                found.value = PathValue(op.settings, chain)

----------------------------------------------------------------------------
(* Preprocessing twice.                                                    *)

\* what Drupal.preprocessBehavior does when it is run once more on behavior
\* n as it is now, with the context, the settings tree and the document of
\* the current call
RunAgain(n) == preprocessBehavior(behaviors[n], op.context, op.settings, dom)

(* C21: when Drupal.preprocessBehavior has run on a behavior in a call,    *)
(* running it again on that behavior with the same context, the same       *)
(* settings tree and the same document ends the same way (it returns, or   *)
(* throws the same value) and leaves the behavior as the first run left    *)
(* it: same settings, same element definitions, same handles.              *)
C21_PreprocessIdempotent ==
  op.name \in {"attachBehaviors", "attachBehavior"} =>
    \A n \in Names :
      ppLog[n].ran =>
        /\ RunAgain(n).err = ppLog[n].err
        /\ RunAgain(n).behavior = behaviors[n]

====
